---- MODULE Spec2Model ----
(***************************************************************************)
(* Model of the ServiceNow MCP server's credential resolver               *)
(* (servicenow_mcp/auth/auth_manager.py, class AuthManager) and of the    *)
(* parameter normalizer (_unwrap_and_validate_params in                   *)
(* servicenow_mcp/tools/*_tools.py).                                      *)
(*                                                                         *)
(* Strings the code only stores and compares are TLA+ strings.  A header  *)
(* value is the sequence of its space-separated words.  URLs that the     *)
(* code splits are sequences of one-character strings.                    *)
(***************************************************************************)
EXTENDS Integers, Sequences, FiniteSets, TLC

\* ------------------------------------------------------------------ bounds
\* Number of get_headers / refresh_token calls made on one resolver.
MaxCalls == 3

\* Depth to which caller input nests mappings under the key "params".
MaxWrap == 1

\* Number of calls made on one resolver when callers run concurrently.
MaxRace == 2

\* --------------------------------------------------------------- constants
\* The status the code accepts as success (auth_manager.py:115, :135).
HTTP_OK == 200

\* Python's None, and a key that a JSON object does not carry.
NoneV == "<None>"
Absent == "<absent>"
NoneUrl == <<"<None>">>

\* The resolver's callers (threads that may call into one AuthManager).
Threads == {"caller1", "caller2"}

\* ---------------------------------------------------------- configuration
NoPayload == [present |-> FALSE]

BasicPayloads ==
    { NoPayload, [present |-> TRUE, username |-> "admin", password |-> "pw"] }

ApiKeyHeaderNames == {"X-ServiceNow-API-Key", "Authorization", "Content-Type", "Accept"}

ApiKeyPayloads ==
    { NoPayload } \cup
    { [present |-> TRUE, header_name |-> h, api_key |-> "key"] : h \in ApiKeyHeaderNames }

ConfiguredTokenUrl == <<"https://login.example/oauth_token.do">>

\* (username, password) pairs of the OAuth payload.
OAuthCredentials ==
    { <<NoneV, NoneV>>, <<"user", NoneV>>, <<"", "pw">>, <<"user", "pw">> }

OAuthPayload(u, c) ==
    [present |-> TRUE, client_id |-> "cid", client_secret |-> "sec",
     token_url |-> u, username |-> c[1], password |-> c[2]]

\* "https://dev.service-now.com" in miniature, a host without a scheme, and a
\* URL without a dot.
FullUrl == <<"h", ":", "/", "/", "d", ".", "s", ".", "c">>
BareUrl == <<"d", ".", "c">>
DotlessUrl == <<"h", ":", "/", "/", "d">>

\* (token_url, instance_url) pairs: a configured endpoint, a derived one, and
\* the pairs from which no endpoint can be derived.
UrlPairs ==
    { <<ConfiguredTokenUrl, NoneUrl>>, <<<<>>, FullUrl>>, <<NoneUrl, BareUrl>>,
      <<NoneUrl, NoneUrl>>, <<NoneUrl, <<>>>>, <<NoneUrl, DotlessUrl>> }

\* AuthConfig + the instance_url handed to AuthManager.__init__.
Configs ==
    { [type |-> "basic", basic |-> b, oauth |-> NoPayload, api_key |-> NoPayload,
       instance_url |-> BareUrl] : b \in BasicPayloads }
    \cup
    { [type |-> "api_key", basic |-> NoPayload, oauth |-> NoPayload, api_key |-> a,
       instance_url |-> BareUrl] : a \in ApiKeyPayloads }
    \cup
    { [type |-> "oauth", basic |-> NoPayload, oauth |-> NoPayload, api_key |-> NoPayload,
       instance_url |-> FullUrl] }
    \cup
    { [type |-> "oauth", basic |-> NoPayload, oauth |-> OAuthPayload(p[1], c),
       api_key |-> NoPayload, instance_url |-> p[2]] :
         p \in UrlPairs, c \in OAuthCredentials }

\* ------------------------------------------------------- the token endpoint
\* What one requests.post can produce: an exception (status 0), a non-200
\* status with a JSON error body, or a 200 whose body is not JSON / is a JSON
\* object.
Outcome(st, js, at, tt) == [status |-> st, json |-> js, access_token |-> at, token_type |-> tt]

Outcomes ==
    { Outcome(0, FALSE, Absent, Absent) } \cup
    { Outcome(s, TRUE, Absent, Absent) : s \in {401, 500} } \cup
    { Outcome(200, FALSE, Absent, Absent),
      Outcome(200, TRUE, "t1", "Bearer"),
      Outcome(200, TRUE, "t2", "mac"),
      Outcome(200, TRUE, "t1", Absent),
      Outcome(200, TRUE, Absent, "Bearer"),
      Outcome(200, TRUE, "", "mac") }

\* ------------------------------------------------------------------ helpers
\* Python truthiness of an Optional[str].
Truthy(v) == v # NoneV /\ v # ""
TruthyUrl(u) == u # NoneUrl /\ u # <<>>

\* str(v) inside an f-string.
Str(v) == IF v = NoneV THEN "None" ELSE v

\* dict.get(key, default) on the parsed token response.
DictGet(v, default) == IF v = Absent THEN default ELSE v

\* base64.b64encode(s.encode()).decode(): injective, kept symbolic.
B64(s) == <<"b64">> \o s

\* headers[k] = v on a dict.
Put(h, k, v) == [x \in (DOMAIN h) \cup {k} |-> IF x = k THEN v ELSE h[x]]

\* Index of the first occurrence of sep in s at or after i, 0 if none.
RECURSIVE FindFrom(_, _, _)
FindFrom(s, sep, i) ==
    IF i + Len(sep) - 1 > Len(s) THEN 0
    ELSE IF SubSeq(s, i, i + Len(sep) - 1) = sep THEN i
    ELSE FindFrom(s, sep, i + 1)

\* str.split(sep).
RECURSIVE Split(_, _)
Split(s, sep) ==
    LET i == FindFrom(s, sep, 1)
    IN  IF i = 0 THEN <<s>>
        ELSE <<SubSeq(s, 1, i - 1)>> \o Split(SubSeq(s, i + Len(sep), Len(s)), sep)

TokenUrl_FirstPiece(cfg) ==
    IF TruthyUrl(cfg.oauth.token_url) THEN [ok |-> TRUE, url |-> cfg.oauth.token_url]
    ELSE IF ~TruthyUrl(cfg.instance_url) THEN [ok |-> FALSE, url |-> <<>>]
    ELSE LET instance_parts == Split(cfg.instance_url, <<".">>)
         IN  IF Len(instance_parts) < 2 THEN [ok |-> FALSE, url |-> <<>>]
             ELSE LET pieces == Split(instance_parts[1], <<"/", "/">>)
                      instance_name == pieces[1]
                  IN  [ok |-> TRUE,
                       url |-> <<"https://">> \o instance_name \o <<".service-now.com/oauth_token.do">>]

TokenUrl_NoSegmentCheck(cfg) ==
    IF TruthyUrl(cfg.oauth.token_url) THEN [ok |-> TRUE, url |-> cfg.oauth.token_url]
    ELSE IF ~TruthyUrl(cfg.instance_url) THEN [ok |-> FALSE, url |-> <<>>]
    ELSE LET instance_parts == Split(cfg.instance_url, <<".">>)
             pieces == Split(instance_parts[1], <<"/", "/">>)
             instance_name == pieces[Len(pieces)]
         IN  [ok |-> TRUE,
              url |-> <<"https://">> \o instance_name \o <<".service-now.com/oauth_token.do">>]

\* Lines 86-94: the token endpoint, or a configuration error.
TokenUrl(cfg) ==
    IF TruthyUrl(cfg.oauth.token_url) THEN [ok |-> TRUE, url |-> cfg.oauth.token_url]
    ELSE IF ~TruthyUrl(cfg.instance_url) THEN [ok |-> FALSE, url |-> <<>>]
    ELSE LET instance_parts == Split(cfg.instance_url, <<".">>)
         IN  IF Len(instance_parts) < 2 THEN [ok |-> FALSE, url |-> <<>>]
             ELSE LET pieces == Split(instance_parts[1], <<"/", "/">>)
                      instance_name == pieces[Len(pieces)]
                  IN  [ok |-> TRUE,
                       url |-> <<"https://">> \o instance_name \o <<".service-now.com/oauth_token.do">>]

\* Line 61: "if not self.token".
NeedsToken(tok) == ~Truthy(tok)

\* Lines 115 and 135: "if response.status_code == 200".
IsSuccess_Not401(status) == status # 401
IsSuccess(status) == status = HTTP_OK

\* Line 122: "if oauth_config.username and oauth_config.password".
PasswordAvailable_Either(cfg) == Truthy(cfg.oauth.username) \/ Truthy(cfg.oauth.password)
PasswordAvailable(cfg) == Truthy(cfg.oauth.username) /\ Truthy(cfg.oauth.password)

\* Lines 117/137 and 118/138: what is read from the parsed token response.
ResponseToken(o) == DictGet(o.access_token, NoneV)
ResponseTokenType_Fixed(o) == "Bearer"
ResponseTokenType(o) == DictGet(o.token_type, "Bearer")

BaseHeaders == [h \in {"Accept", "Content-Type"} |-> <<"application/json">>]

BasicHeaders(cfg) ==
    Put(BaseHeaders, "Authorization",
        <<"Basic", B64(<<cfg.basic.username, ":", cfg.basic.password>>)>>)

ApiKeyHeaders_FixedName(cfg) ==
    Put(BaseHeaders, "Authorization", <<cfg.api_key.api_key>>)
ApiKeyHeaders(cfg) ==
    Put(BaseHeaders, cfg.api_key.header_name, <<cfg.api_key.api_key>>)

OAuthHeaders(ttype, tok) ==
    Put(BaseHeaders, "Authorization", <<Str(ttype), Str(tok)>>)

\* -------------------------------------------------------------------- state
VARIABLES
    config,      \* self.config and self.instance_url
    token,       \* self.token
    token_type,  \* self.token_type
    pc,          \* per caller: where it is inside get_headers/refresh_token
    cur,         \* per caller: the locals and history of the call in progress
    last,        \* the call that completed most recently
    stableAuth,  \* Authorization of the last header set returned since the last refresh
    ncalls       \* calls started so far

authVars == <<config, token, token_type, pc, cur, last, stableAuth, ncalls>>

NoHeaders == [h \in {} |-> <<>>]

NoCall == [op |-> "none", log |-> <<>>, acq |-> 0, tok0 |-> NoneV, typ0 |-> NoneV,
           prior |-> <<>>, data |-> Outcome(0, FALSE, Absent, Absent),
           rtype |-> NoneV, url |-> <<>>, kind |-> "none", err |-> "none",
           headers |-> NoHeaders, after |-> "none",
           prevOut |-> Outcome(0, FALSE, Absent, Absent)]

Quiet == \A t \in Threads : pc[t] = "idle"

\* __init__, lines 27-38: no token yet.
AuthFresh ==
    /\ token = NoneV
    /\ token_type = NoneV
    /\ pc = [t \in Threads |-> "idle"]
    /\ cur = [t \in Threads |-> NoCall]
    /\ last = NoCall
    /\ stableAuth = <<>>
    /\ ncalls = 0

AuthInit ==
    /\ config \in Configs
    /\ AuthFresh

\* A call returns: a header set, None (refresh_token), or a raised exception.
Finish(t, c, kind, err, headers) ==
    /\ last' = [c EXCEPT !.kind = kind, !.err = err, !.headers = headers,
                         !.data = NoCall.data, !.rtype = NoneV, !.url = <<>>]
    /\ cur' = [cur EXCEPT ![t] = NoCall]
    /\ pc' = [pc EXCEPT ![t] = "idle"]
    /\ stableAuth' = IF kind = "headers" /\ config.type = "oauth"
                     THEN headers["Authorization"]
                     ELSE IF c.op = "refresh_token" THEN <<>> ELSE stableAuth

\* The record of a call that starts now; after/prevOut remember a refresh_token
\* that returned normally just before it, and the response it stored.
Begin(op) ==
    LET refreshed == last.op = "refresh_token" /\ last.kind = "none" /\ last.log # <<>>
    IN  [NoCall EXCEPT !.op = op, !.tok0 = token, !.typ0 = token_type,
                       !.prior = stableAuth,
                       !.after = IF refreshed THEN "refresh_ok" ELSE "none",
                       !.prevOut = IF refreshed THEN last.log[Len(last.log)].out ELSE @]

GetHeaders_NoPayloadCheck(t) ==
    /\ pc[t] = "idle"
    /\ ncalls < MaxCalls
    /\ ncalls' = ncalls + 1
    /\ UNCHANGED <<config, token, token_type>>
    /\ LET c == Begin("get_headers")
       IN  CASE config.type = "basic" ->
                  IF ~config.basic.present
                  THEN Finish(t, c, "headers", "none", BaseHeaders)
                  ELSE Finish(t, c, "headers", "none", BasicHeaders(config))
             [] config.type = "api_key" ->
                  IF ~config.api_key.present
                  THEN Finish(t, c, "headers", "none", BaseHeaders)
                  ELSE Finish(t, c, "headers", "none", ApiKeyHeaders(config))
             [] config.type = "oauth" ->
                  /\ cur' = [cur EXCEPT ![t] = c]
                  /\ pc' = [pc EXCEPT ![t] = IF NeedsToken(token) THEN "acquire" ELSE "read_type"]
                  /\ UNCHANGED <<last, stableAuth>>

\* get_headers, lines 40-72 up to the first read of shared state.
GetHeaders(t) ==
    /\ pc[t] = "idle"
    /\ ncalls < MaxCalls
    /\ ncalls' = ncalls + 1
    /\ UNCHANGED <<config, token, token_type>>
    /\ LET c == Begin("get_headers")
       IN  CASE config.type = "basic" ->
                  IF ~config.basic.present
                  THEN Finish(t, c, "error", "config", NoHeaders)
                  ELSE Finish(t, c, "headers", "none", BasicHeaders(config))
             [] config.type = "api_key" ->
                  IF ~config.api_key.present
                  THEN Finish(t, c, "error", "config", NoHeaders)
                  ELSE Finish(t, c, "headers", "none", ApiKeyHeaders(config))
             [] config.type = "oauth" ->
                  /\ cur' = [cur EXCEPT ![t] = c]
                  /\ pc' = [pc EXCEPT ![t] = IF NeedsToken(token) THEN "acquire" ELSE "read_type"]
                  /\ UNCHANGED <<last, stableAuth>>

RefreshToken_IfEmpty(t) ==
    /\ pc[t] = "idle"
    /\ ncalls < MaxCalls
    /\ ncalls' = ncalls + 1
    /\ UNCHANGED <<config, token, token_type>>
    /\ LET c == Begin("refresh_token")
       IN  IF config.type = "oauth" /\ NeedsToken(token)
           THEN /\ cur' = [cur EXCEPT ![t] = c]
                /\ pc' = [pc EXCEPT ![t] = "acquire"]
                /\ UNCHANGED <<last, stableAuth>>
           ELSE Finish(t, c, "none", "none", NoHeaders)

\* refresh_token, lines 143-146.
RefreshToken(t) ==
    /\ pc[t] = "idle"
    /\ ncalls < MaxCalls
    /\ ncalls' = ncalls + 1
    /\ UNCHANGED <<config, token, token_type>>
    /\ LET c == Begin("refresh_token")
       IN  IF config.type = "oauth"
           THEN /\ cur' = [cur EXCEPT ![t] = c]
                /\ pc' = [pc EXCEPT ![t] = "acquire"]
                /\ UNCHANGED <<last, stableAuth>>
           ELSE Finish(t, c, "none", "none", NoHeaders)

\* _get_oauth_token, lines 81-102: configuration checks, endpoint, Basic header.
AcquireConfig(t) ==
    /\ pc[t] = "acquire"
    /\ UNCHANGED <<config, token, token_type, ncalls>>
    /\ LET c == [cur[t] EXCEPT !.acq = @ + 1]
       IN  IF ~config.oauth.present
           THEN Finish(t, c, "error", "config", NoHeaders)
           ELSE LET tu == TokenUrl(config)
                IN  IF ~tu.ok
                    THEN Finish(t, c, "error", "config", NoHeaders)
                    ELSE /\ cur' = [cur EXCEPT ![t] = [c EXCEPT !.url = tu.url]]
                         /\ pc' = [pc EXCEPT ![t] = "cc_post"]
                         /\ UNCHANGED <<last, stableAuth>>

\* Line 141: neither grant returned 200.
RaiseAuthError_Swallowed(t, c) ==
    IF c.op = "get_headers"
    THEN /\ cur' = [cur EXCEPT ![t] = c]
         /\ pc' = [pc EXCEPT ![t] = "read_type"]
         /\ UNCHANGED <<last, stableAuth>>
    ELSE Finish(t, c, "none", "none", NoHeaders)
RaiseAuthError_Retry(t, c) ==
    IF Len(c.log) < 4
    THEN /\ cur' = [cur EXCEPT ![t] = c]
         /\ pc' = [pc EXCEPT ![t] = "cc_post"]
         /\ UNCHANGED <<last, stableAuth>>
    ELSE Finish(t, c, "error", "auth", NoHeaders)
RaiseAuthError(t, c) == Finish(t, c, "error", "auth", NoHeaders)

\* What follows one POST, lines 110-116 and 130-136 (and 122 after the first):
\* requests.post raises, or answers 200 (response.json() may raise), or not.
AfterPost(t, grant, o) ==
    LET c == [cur[t] EXCEPT !.log = Append(@, [grant |-> grant, url |-> cur[t].url, out |-> o]),
                            !.data = o]
    IN  IF o.status = 0 THEN Finish(t, c, "error", "transport", NoHeaders)
        ELSE IF IsSuccess(o.status)
        THEN IF ~o.json THEN Finish(t, c, "error", "decode", NoHeaders)
             ELSE /\ cur' = [cur EXCEPT ![t] = c]
                  /\ pc' = [pc EXCEPT ![t] = "store_token"]
                  /\ UNCHANGED <<last, stableAuth>>
        ELSE IF grant = "client_credentials" /\ PasswordAvailable(config)
        THEN /\ cur' = [cur EXCEPT ![t] = c]
             /\ pc' = [pc EXCEPT ![t] = "pw_post"]
             /\ UNCHANGED <<last, stableAuth>>
        ELSE RaiseAuthError(t, c)

\* Lines 104-116 and 121-122: the client_credentials POST.
PostClientCredentials(t) ==
    /\ pc[t] = "cc_post"
    /\ UNCHANGED <<config, token, token_type, ncalls>>
    /\ \E o \in Outcomes : AfterPost(t, "client_credentials", o)

\* Lines 123-136 and 141: the password POST.
PostPassword(t) ==
    /\ pc[t] = "pw_post"
    /\ UNCHANGED <<config, token, token_type, ncalls>>
    /\ \E o \in Outcomes : AfterPost(t, "password", o)

\* Lines 117 and 137: self.token = token_data.get("access_token").
StoreToken(t) ==
    /\ pc[t] = "store_token"
    /\ token' = ResponseToken(cur[t].data)
    /\ pc' = [pc EXCEPT ![t] = "store_type"]
    /\ UNCHANGED <<config, token_type, cur, last, stableAuth, ncalls>>

StoreTokenType_NoReturn(t) ==
    /\ pc[t] = "store_type"
    /\ token_type' = ResponseTokenType(cur[t].data)
    /\ UNCHANGED <<config, token, ncalls>>
    /\ IF Len(cur[t].log) = 1 /\ PasswordAvailable(config)
       THEN /\ pc' = [pc EXCEPT ![t] = "pw_post"]
            /\ UNCHANGED <<cur, last, stableAuth>>
       ELSE IF cur[t].op = "get_headers"
       THEN /\ pc' = [pc EXCEPT ![t] = "read_type"]
            /\ UNCHANGED <<cur, last, stableAuth>>
       ELSE Finish(t, cur[t], "none", "none", NoHeaders)

\* Lines 118-119 and 138-139: self.token_type = ...; return.
StoreTokenType(t) ==
    /\ pc[t] = "store_type"
    /\ token_type' = ResponseTokenType(cur[t].data)
    /\ UNCHANGED <<config, token, ncalls>>
    /\ IF cur[t].op = "get_headers"
       THEN /\ pc' = [pc EXCEPT ![t] = "read_type"]
            /\ UNCHANGED <<cur, last, stableAuth>>
       ELSE Finish(t, cur[t], "none", "none", NoHeaders)

\* Line 64, first half: the f-string reads self.token_type.
ReadTokenType(t) ==
    /\ pc[t] = "read_type"
    /\ cur' = [cur EXCEPT ![t].rtype = token_type]
    /\ pc' = [pc EXCEPT ![t] = "read_token"]
    /\ UNCHANGED <<config, token, token_type, last, stableAuth, ncalls>>

\* Line 64, second half, and line 72: reads self.token, returns the headers.
ReadToken(t) ==
    /\ pc[t] = "read_token"
    /\ UNCHANGED <<config, token, token_type, ncalls>>
    /\ Finish(t, cur[t], "headers", "none", OAuthHeaders(cur[t].rtype, token))

Step(t) ==
    \/ AcquireConfig(t)
    \/ PostClientCredentials(t)
    \/ PostPassword(t)
    \/ StoreToken(t)
    \/ StoreTokenType(t)
    \/ ReadTokenType(t)
    \/ ReadToken(t)


\* ------------------------------------------------------ parameter normalizer
\* Python values, tagged with type(...).__name__: s is the text of a str, n the
\* number of an int, items the (key, value) pairs of a list, m the entries of
\* a dict or the fields of an object.
EmptyMap == [k \in {} |-> 0]
Py(t, s, n, items, m) == [t |-> t, s |-> s, n |-> n, items |-> items, m |-> m]
PyStr(x) == Py("str", x, 0, <<>>, EmptyMap)
PyInt(n) == Py("int", "", n, <<>>, EmptyMap)
PyNone == Py("NoneType", "", 0, <<>>, EmptyMap)
PyList(items) == Py("list", "", 0, items, EmptyMap)
PyDict(f) == Py("dict", "", 0, <<>>, f)
\* An instance of a pydantic model: exposes .dict().
PyModel(f) == Py("BaseModel", "", 0, <<>>, f)

\* One declared field: its type, whether it is Optional[...], whether it is
\* required (Field(...)), and its default.
FieldSpec(ty, optional, required, default) ==
    [type |-> ty, optional |-> optional, required |-> required, default |-> default]
ReqStr == FieldSpec("str", FALSE, TRUE, PyNone)
OptStr == FieldSpec("str", TRUE, FALSE, PyNone)
OptInt == FieldSpec("int", TRUE, FALSE, PyNone)
OptIntDefault(n) == FieldSpec("int", TRUE, FALSE, PyInt(n))

\* epic_tools.py:22-31.
CreateEpicParams ==
    [order |-> <<"short_description", "description", "priority", "state",
                 "assignment_group", "assigned_to", "work_notes">>,
     fields |-> [f \in {"short_description", "description", "priority", "state",
                        "assignment_group", "assigned_to", "work_notes"} |->
                    IF f = "short_description" THEN ReqStr ELSE OptStr]]

\* scrum_task_tools.py:22-36.
CreateScrumTaskParams ==
    [order |-> <<"story", "short_description", "priority", "planned_hours",
                 "remaining_hours", "hours", "description", "type", "state",
                 "assignment_group", "assigned_to", "work_notes">>,
     fields |-> [f \in {"story", "short_description", "priority", "planned_hours",
                        "remaining_hours", "hours", "description", "type", "state",
                        "assignment_group", "assigned_to", "work_notes"} |->
                    IF f \in {"story", "short_description"} THEN ReqStr
                    ELSE IF f \in {"planned_hours", "remaining_hours", "hours"} THEN OptInt
                    ELSE OptStr]]

\* epic_tools.py:45-53.
ListEpicsParams ==
    [order |-> <<"limit", "offset", "priority", "assignment_group", "timeframe", "query">>,
     fields |-> [f \in {"limit", "offset", "priority", "assignment_group", "timeframe", "query"} |->
                    IF f = "limit" THEN OptIntDefault(10)
                    ELSE IF f = "offset" THEN OptIntDefault(0)
                    ELSE OptStr]]

\* The tools whose normalization is modelled, with the model_class and
\* required_fields each passes: create_epic (epic_tools.py:175-179),
\* create_scrum_task (scrum_task_tools.py:184-188), list_epics
\* (epic_tools.py:345-348, required_fields left None).
Tools == {"create_epic", "create_scrum_task", "list_epics"}

\* The parameters of the incident lookup: the number of the incident.
GetIncidentByNumberParams ==
    [order |-> <<"incident_number">>,
     fields |-> [f \in {"incident_number"} |-> ReqStr]]

\* The lookup of a record by its identifier.
LookupTools == {"get_incident_by_number"}

SchemaOf(tool) ==
    CASE tool = "create_epic" -> CreateEpicParams
      [] tool = "create_scrum_task" -> CreateScrumTaskParams
      [] tool = "list_epics" -> ListEpicsParams
      [] tool \in LookupTools -> GetIncidentByNumberParams

RequiredOf(tool) ==
    CASE tool = "create_epic" -> <<"short_description">>
      [] tool = "create_scrum_task" -> <<"short_description", "story">>
      [] tool = "list_epics" -> <<>>
      [] tool \in LookupTools -> <<"incident_number">>

Message(text, args) == [text |-> text, args |-> args]
Failure(text, args) == [success |-> FALSE, message |-> Message(text, args)]
Success(record) == [success |-> TRUE, params |-> record]

IsWrapped_AnyParams(p) ==
    /\ p.t = "dict"
    /\ "params" \in DOMAIN p.m
    /\ p.m["params"].t = "dict"
\* Line 69: the wrapper test.
IsWrapped(p) ==
    /\ p.t = "dict"
    /\ Cardinality(DOMAIN p.m) = 1
    /\ "params" \in DOMAIN p.m
    /\ p.m["params"].t = "dict"

\* Lines 69-71.
Unwrap_Never(p) == p
Unwrap(p) == IF IsWrapped(p) THEN p.m["params"] ELSE p

\* dict(pairs): the last pair with a key wins.
RECURSIVE PairsToMap(_)
PairsToMap(items) ==
    IF items = <<>> THEN EmptyMap
    ELSE LET rest == PairsToMap(SubSeq(items, 1, Len(items) - 1))
             kv == items[Len(items)]
         IN  [k \in (DOMAIN rest) \cup {kv[1]} |-> IF k = kv[1] THEN kv[2] ELSE rest[k]]

Coerce_AnyStr(p) ==
    CASE p.t = "BaseModel" -> [ok |-> TRUE, d |-> p.m]
      [] p.t = "list" -> [ok |-> TRUE, d |-> PairsToMap(p.items)]
      [] p.t = "str" -> [ok |-> TRUE, d |-> EmptyMap]
      [] OTHER -> [ok |-> FALSE, d |-> EmptyMap]

\* Line 78: params.dict() if hasattr(params, "dict") else dict(params).
Coerce(p) ==
    CASE p.t = "BaseModel" -> [ok |-> TRUE, d |-> p.m]
      [] p.t = "list" -> [ok |-> TRUE, d |-> PairsToMap(p.items)]
      [] p.t = "str" -> [ok |-> p.s = "", d |-> EmptyMap]
      [] OTHER -> [ok |-> FALSE, d |-> EmptyMap]

\* Lines 87-93: the first name of required_fields that the mapping lacks.
RECURSIVE FirstMissing(_, _)
FirstMissing(required, d) ==
    IF required = <<>> THEN <<>>
    ELSE IF required[1] \notin DOMAIN d THEN <<required[1]>>
    ELSE FirstMissing(Tail(required), d)

\* pydantic: a declared field accepts a value of its type, and None when it
\* is Optional.
Accepts(spec, v) == v.t = spec.type \/ (spec.optional /\ v.t = "NoneType")

\* The declared fields, in declaration order, that model_class(**d) rejects.
RECURSIVE Rejected(_, _, _)
Rejected(schema, d, i) ==
    IF i > Len(schema.order) THEN <<>>
    ELSE LET f == schema.order[i]
             bad == IF f \in DOMAIN d THEN ~Accepts(schema.fields[f], d[f])
                    ELSE schema.fields[f].required
         IN  (IF bad THEN <<f>> ELSE <<>>) \o Rejected(schema, d, i + 1)

\* Lines 95-107: model_class(**params); undeclared keys are ignored.
Validate(schema, d) ==
    LET bad == Rejected(schema, d, 1)
    IN  IF bad # <<>> THEN Failure("Error validating parameters:", bad)
        ELSE Success([f \in DOMAIN schema.fields |->
                         IF f \in DOMAIN d THEN d[f] ELSE schema.fields[f].default])

\* Lines 86-107, on the mapping.
CheckAndValidate_ValidateFirst(schema, required, d) ==
    LET r == Validate(schema, d)
        missing == FirstMissing(required, d)
    IN  IF ~r.success THEN r
        ELSE IF missing # <<>> THEN Failure("Missing required parameter", missing)
        ELSE r
CheckAndValidate(schema, required, d) ==
    LET missing == FirstMissing(required, d)
    IN  IF missing # <<>> THEN Failure("Missing required parameter", missing)
        ELSE Validate(schema, d)

\* _unwrap_and_validate_params, lines 56-107.
UnwrapAndValidate(params, schema, required) ==
    LET p == Unwrap(params)
        co == IF p.t = "dict" THEN [ok |-> TRUE, d |-> p.m] ELSE Coerce(p)
    IN  IF ~co.ok
        THEN Failure("Invalid parameters format. Expected a dictionary, got", <<p.t>>)
        ELSE CheckAndValidate(schema, required, co.d)

\* ---------------------------------------------------------- caller inputs
\* Values a caller may give each key; a list is no str and "abc" is no int.
KeyValues(k) ==
    CASE k = "short_description" -> {PyStr("x"), PyNone, PyList(<<>>)}
      [] k = "story" -> {PyStr("s1")}
      [] k = "planned_hours" -> {PyInt(0), PyStr("abc")}

PlainKeys == {"short_description", "story", "planned_hours"}

\* Mappings without a "params" key.
PlainMaps ==
    UNION { { f \in [ks -> UNION {KeyValues(k) : k \in ks}] :
                \A k \in ks : f[k] \in KeyValues(k) } : ks \in SUBSET PlainKeys }

WithKey(f, k, v) == [x \in (DOMAIN f) \cup {k} |-> IF x = k THEN v ELSE f[x]]

\* Mappings whose "params" entries nest at most n deep.
RECURSIVE Maps(_)
Maps(n) ==
    IF n = 0 THEN PlainMaps \cup {WithKey(f, "params", PyStr("p")) : f \in PlainMaps}
    ELSE Maps(n - 1) \cup
         {WithKey(f, "params", PyDict(g)) : f \in PlainMaps, g \in Maps(n - 1)}

\* What a caller passes as params: mappings, and values that are no mapping.
RawInputs ==
    { PyDict(f) : f \in Maps(MaxWrap) } \cup
    { PyModel(f) : f \in {g \in PlainMaps : DOMAIN g = {"short_description"}} } \cup
    { PyStr(""), PyStr("ab"), PyInt(5), PyNone, PyList(<<>>),
      PyList(<<<<"short_description", PyStr("x")>>>>) }

\* {"params": m}.
Wrap(m) == PyDict([k \in {"params"} |-> m])

VARIABLES
    nRaw,     \* the params argument of the call
    nCall,    \* the tool that calls, which fixes model_class and required_fields
    nResult,  \* what _unwrap_and_validate_params returned
    nPc       \* "ready": not yet called; "done": returned

normVars == <<nRaw, nCall, nResult, nPc>>

NotComputed == Failure("", <<>>)

NormInit ==
    /\ nRaw \in RawInputs
    /\ nCall \in Tools
    /\ nResult = NotComputed
    /\ nPc = "ready"

\* One call of _unwrap_and_validate_params.
Normalize ==
    /\ nPc = "ready"
    /\ nResult' = UnwrapAndValidate(nRaw, SchemaOf(nCall), RequiredOf(nCall))
    /\ nPc' = "done"
    /\ UNCHANGED <<nRaw, nCall>>


\* ---------------------------------------------------------- tool operations
\* The objects a tool receives as auth_manager and server_config: an
\* AuthManager (instance_url attribute, possibly None, and get_headers), a
\* ServerConfig (instance_url only), or an object with neither.
CollaboratorKinds == {"AuthManager", "ServerConfig", "Other"}

ServerUrl == FullUrl

HasInstanceUrl(kind) == kind \in {"AuthManager", "ServerConfig"}
HasGetHeaders(kind) == kind = "AuthManager"
InstanceUrlOf(kind, cfg) == IF kind = "AuthManager" THEN cfg.instance_url ELSE ServerUrl

ResolveInstanceUrl_Default(auth_manager, server_config, cfg) ==
    IF HasInstanceUrl(server_config) THEN InstanceUrlOf(server_config, cfg)
    ELSE IF HasInstanceUrl(auth_manager) THEN InstanceUrlOf(auth_manager, cfg)
    ELSE ServerUrl
\* _get_instance_url, epic_tools.py:110-127.
ResolveInstanceUrl(auth_manager, server_config, cfg) ==
    IF HasInstanceUrl(server_config) THEN InstanceUrlOf(server_config, cfg)
    ELSE IF HasInstanceUrl(auth_manager) THEN InstanceUrlOf(auth_manager, cfg)
    ELSE NoneUrl

\* _get_headers, epic_tools.py:130-155: whose get_headers is called, if any.
HeaderSource(auth_manager, server_config) ==
    IF HasGetHeaders(auth_manager) THEN auth_manager
    ELSE IF HasGetHeaders(server_config) THEN server_config
    ELSE "none"

\* Python truthiness of a field value.
PyTruthy(v) ==
    CASE v.t = "str" -> v.s # ""
      [] v.t = "int" -> v.n # 0
      [] v.t = "NoneType" -> FALSE
      [] OTHER -> TRUE

\* "data = {...}; if validated_params.f: data[f] = ...".
DataOf(validated, always, optional) ==
    [f \in always \cup {o \in optional : PyTruthy(validated[o])} |-> validated[f]]

\* epic_tools.py:186-201 and scrum_task_tools.py:195-221.
BuildData(tool, validated) ==
    CASE tool = "create_epic" ->
           DataOf(validated, {"short_description"},
                  {"description", "priority", "assignment_group", "assigned_to", "work_notes"})
      [] tool = "create_scrum_task" ->
           DataOf(validated, {"story", "short_description"},
                  {"priority", "planned_hours", "remaining_hours", "hours", "description",
                   "type", "state", "assignment_group", "assigned_to", "work_notes"})
      [] OTHER -> EmptyMap

\* What datetime.now().strftime("%Y-%m-%d %H:%M:%S") may give when it is read;
\* NoTime when the call does not read the clock.
Clock == {"T1", "T2"}
NoTime == ""

\* "^".join(query_parts).
RECURSIVE Join(_)
Join(parts) ==
    IF parts = <<>> THEN <<>>
    ELSE IF Len(parts) = 1 THEN parts[1]
    ELSE parts[1] \o <<"^">> \o Join(Tail(parts))

BuildQuery_SwappedFrames(tool, validated, now) ==
    IF tool # "list_epics" THEN <<>>
    ELSE LET eq(f) == IF PyTruthy(validated[f]) THEN << <<f, "=", validated[f].s>> >> ELSE <<>>
             tf == validated["timeframe"]
             frame == IF ~PyTruthy(tf) THEN <<>>
                      ELSE IF tf.s = "upcoming" THEN << <<"end_date", "<", now>> >>
                      ELSE IF tf.s = "in-progress"
                           THEN << <<"start_date", "<", now, "^", "end_date", ">", now>> >>
                      ELSE IF tf.s = "completed" THEN << <<"start_date", ">", now>> >>
                      ELSE <<>>
             free == IF PyTruthy(validated["query"]) THEN << <<validated["query"].s>> >> ELSE <<>>
         IN  Join(eq("priority") \o eq("assignment_group") \o frame \o free)
\* epic_tools.py:355-378; now is the timestamp of line 364.
BuildQuery(tool, validated, now) ==
    IF tool # "list_epics" THEN <<>>
    ELSE LET eq(f) == IF PyTruthy(validated[f]) THEN << <<f, "=", validated[f].s>> >> ELSE <<>>
             tf == validated["timeframe"]
             frame == IF ~PyTruthy(tf) THEN <<>>
                      ELSE IF tf.s = "upcoming" THEN << <<"start_date", ">", now>> >>
                      ELSE IF tf.s = "in-progress"
                           THEN << <<"start_date", "<", now, "^", "end_date", ">", now>> >>
                      ELSE IF tf.s = "completed" THEN << <<"end_date", "<", now>> >>
                      ELSE <<>>
             free == IF PyTruthy(validated["query"]) THEN << <<validated["query"].s>> >> ELSE <<>>
         IN  Join(eq("priority") \o eq("assignment_group") \o frame \o free)

\* The table and the key under which each tool returns what the API sent.
TableOf(tool) ==
    CASE tool = "create_epic" -> "rm_epic"
      [] tool = "list_epics" -> "rm_epic"
      [] tool = "create_scrum_task" -> "rm_scrum_task"
      [] OTHER -> "incident"

EntityKeyOf(tool) ==
    CASE tool = "create_epic" -> "epic"
      [] tool = "list_epics" -> "epics"
      [] tool = "create_scrum_task" -> "scrum_task"
      [] OTHER -> "incident"

EntityKeys == {"epic", "epics", "scrum_task", "incident"}

IsList(tool) == tool = "list_epics"

\* Line 363-364: the clock is read when a timeframe is given.
ClockReads(tool, validated) ==
    IF IsList(tool) /\ PyTruthy(validated["timeframe"]) THEN Clock ELSE {NoTime}

\* What requests.get/post and raise_for_status/json produce for the table
\* API: a RequestException, or a JSON object with or without "result".
TableBody(ok, has_result, entities) ==
    [ok |-> ok, has_result |-> has_result, entities |-> entities]

TableOutcomes ==
    { TableBody(FALSE, FALSE, <<>>), TableBody(TRUE, FALSE, <<>>) } \cup
    { TableBody(TRUE, TRUE, e) : e \in {<<>>, <<"r1">>, <<"r1", "r2">>} }

\* What a tool call gives its caller: an exception, or the returned dict (its
\* keys, and the values of those that are present).
Envelope(raised, err, success, keys, message, entities, count) ==
    [raised |-> raised, err |-> err, success |-> success, keys |-> keys,
     message |-> message, entities |-> entities, count |-> count, total |-> count]

NoMessage == Message("", <<>>)
Raised(err) == Envelope(TRUE, err, FALSE, {}, NoMessage, <<>>, 0)
FailureEnvelope(message) == Envelope(FALSE, "none", FALSE, {"success", "message"}, message, <<>>, 0)

\* epic_tools.py:231-235: the envelope of a create.
CreateEnvelope(tool, body) ==
    IF ~body.has_result THEN Raised("KeyError")
    ELSE Envelope(FALSE, "none", TRUE, {"success", "message", EntityKeyOf(tool)},
                  Message("created successfully", <<EntityKeyOf(tool)>>), body.entities, 0)

ListEnvelope_CountKeys(tool, body) ==
    LET entities == IF body.has_result THEN body.entities ELSE <<>>
        count == IF body.has_result THEN 1 ELSE 0
    IN  [Envelope(FALSE, "none", TRUE, {"success", EntityKeyOf(tool), "count", "total"},
                  NoMessage, entities, count) EXCEPT !.total = count]
\* epic_tools.py:410-421: the envelope of a list.
ListEnvelope(tool, body) ==
    LET entities == IF body.has_result THEN body.entities ELSE <<>>
        count == Len(entities)
    IN  [Envelope(FALSE, "none", TRUE, {"success", EntityKeyOf(tool), "count", "total"},
                  NoMessage, entities, count) EXCEPT !.total = count]

\* epic_tools.py:236-241 and 422-427.
TransportEnvelope(tool) ==
    FailureEnvelope(Message("Error", <<tool, "RequestException">>))

LookupEnvelope_WholeList(tool, id, body) ==
    Envelope(FALSE, "none", TRUE, {"success", "message", EntityKeyOf(tool)},
             Message("found", <<id>>), body.entities, 0)
\* The envelope of a lookup: the first record of a non-empty result list under
\* the entity key, "not found" for an empty one; both messages carry the
\* identifier asked for.
LookupEnvelope(tool, id, body) ==
    IF ~body.has_result \/ body.entities = <<>>
    THEN FailureEnvelope(Message("not found:", <<id>>))
    ELSE Envelope(FALSE, "none", TRUE, {"success", "message", EntityKeyOf(tool)},
                  Message("found", <<id>>), <<body.entities[1]>>, 0)

\* What the tool returns for the API's answer.
Respond(tool, validated, body) ==
    IF ~body.ok THEN TransportEnvelope(tool)
    ELSE IF IsList(tool) THEN ListEnvelope(tool, body)
    ELSE IF tool \in LookupTools
         THEN LookupEnvelope(tool, validated["incident_number"].s, body)
    ELSE CreateEnvelope(tool, body)

VARIABLES
    tArgs,    \* the kinds of object passed as auth_manager and as server_config
    tPc,      \* "start", "await" (inside get_headers), "done"
    tReq,     \* the table-API request the call made
    tBody,    \* what the table API answered
    tNow,     \* the timestamp the call read from the clock
    tResult   \* what the call gave its caller

toolVars == <<tArgs, tPc, tReq, tBody, tNow, tResult>>

\* The caller in which the tool call runs.
ToolThread == "caller1"

NoRequest == [sent |-> FALSE, url |-> <<>>, table |-> "", headers |-> NoHeaders,
              data |-> EmptyMap, query |-> <<>>, limit |-> PyNone, offset |-> PyNone,
              display_value |-> ""]

NoResult == Envelope(FALSE, "none", FALSE, {}, NoMessage, <<>>, 0)

NoBody == TableBody(FALSE, FALSE, <<>>)

\* No tool call is made in the resolver's and the normalizer's specifications.
ToolIdle ==
    /\ tArgs = [auth_manager |-> "AuthManager", server_config |-> "ServerConfig"]
    /\ tPc = "idle"
    /\ tReq = NoRequest
    /\ tBody = NoBody
    /\ tNow = NoTime
    /\ tResult = NoResult

Return(envelope) ==
    /\ tResult' = envelope
    /\ tPc' = "done"

ToolStart_HeadersFirst ==
    /\ tPc = "start"
    /\ Normalize
    /\ UNCHANGED <<tArgs, tReq, tBody>>
    /\ LET r == UnwrapAndValidate(nRaw, SchemaOf(nCall), RequiredOf(nCall))
           url == ResolveInstanceUrl(tArgs.auth_manager, tArgs.server_config, config)
       IN  IF ~TruthyUrl(url)
           THEN /\ Return(FailureEnvelope(Message("Cannot find instance_url", <<>>)))
                /\ tNow' = NoTime
                /\ UNCHANGED authVars
           ELSE IF HeaderSource(tArgs.auth_manager, tArgs.server_config) = "none"
           THEN /\ Return(FailureEnvelope(Message("Cannot find get_headers method", <<>>)))
                /\ tNow' = NoTime
                /\ UNCHANGED authVars
           ELSE /\ GetHeaders(ToolThread)
                /\ IF ~r.success
                   THEN Return(FailureEnvelope(r.message)) /\ tNow' = NoTime
                   ELSE /\ tNow' \in ClockReads(nCall, r.params)
                        /\ tPc' = "await"
                        /\ UNCHANGED tResult
\* A tool function up to its call of get_headers (create_epic,
\* epic_tools.py:174-212; list_epics, 345-389): normalization, request data
\* or query, instance URL.
ToolStart ==
    /\ tPc = "start"
    /\ Normalize
    /\ UNCHANGED <<tArgs, tReq, tBody>>
    /\ LET r == UnwrapAndValidate(nRaw, SchemaOf(nCall), RequiredOf(nCall))
           url == ResolveInstanceUrl(tArgs.auth_manager, tArgs.server_config, config)
       IN  IF ~r.success
           THEN Return(FailureEnvelope(r.message)) /\ tNow' = NoTime /\ UNCHANGED authVars
           ELSE /\ tNow' \in ClockReads(nCall, r.params)
                /\ IF ~TruthyUrl(url)
                   THEN /\ Return(FailureEnvelope(Message("Cannot find instance_url", <<>>)))
                        /\ UNCHANGED authVars
                   ELSE IF HeaderSource(tArgs.auth_manager, tArgs.server_config) = "none"
                   THEN /\ Return(FailureEnvelope(Message("Cannot find get_headers method", <<>>)))
                        /\ UNCHANGED authVars
                   ELSE /\ GetHeaders(ToolThread)
                        /\ tPc' = "await"
                        /\ UNCHANGED tResult

RequestOf_DefaultPaging(tool, validated, url, headers, now) ==
    [sent |-> TRUE, url |-> url, table |-> TableOf(tool),
     headers |-> IF IsList(tool) THEN headers
                 ELSE Put(headers, "Content-Type", <<"application/json">>),
     data |-> BuildData(tool, validated),
     query |-> BuildQuery(tool, validated, now),
     limit |-> IF IsList(tool) THEN PyInt(10) ELSE PyNone,
     offset |-> IF IsList(tool) THEN PyInt(0) ELSE PyNone,
     display_value |-> IF IsList(tool) THEN "true" ELSE ""]
\* The request a tool sends once it has its headers (lines 219-226, 391-404).
RequestOf(tool, validated, url, headers, now) ==
    [sent |-> TRUE, url |-> url, table |-> TableOf(tool),
     headers |-> IF IsList(tool) THEN headers
                 ELSE Put(headers, "Content-Type", <<"application/json">>),
     data |-> BuildData(tool, validated),
     query |-> BuildQuery(tool, validated, now),
     limit |-> IF IsList(tool) THEN validated["limit"] ELSE PyNone,
     offset |-> IF IsList(tool) THEN validated["offset"] ELSE PyNone,
     display_value |-> IF IsList(tool) THEN "true" ELSE ""]

\* Lines 225-241: the request is sent with these headers and its answer
\* becomes the envelope.
SendRequest(headers) ==
    \E body \in TableOutcomes :
      /\ tBody' = body
      /\ tReq' = RequestOf(nCall, nResult.params,
                           ResolveInstanceUrl(tArgs.auth_manager, tArgs.server_config, config),
                           headers, tNow)
      /\ Return(Respond(nCall, nResult.params, body))

ToolFinish_SendAnyway ==
    /\ tPc = "await"
    /\ pc[ToolThread] = "idle"
    /\ UNCHANGED <<authVars, normVars, tArgs, tNow>>
    /\ IF last.kind = "error"
       THEN SendRequest(BaseHeaders)
       ELSE SendRequest(last.headers)
\* The rest of the tool function (create_epic, epic_tools.py:212-241): an
\* exception of get_headers leaves the function, which is outside the try;
\* otherwise the request is sent.
ToolFinish ==
    /\ tPc = "await"
    /\ pc[ToolThread] = "idle"
    /\ UNCHANGED <<authVars, normVars, tArgs, tNow>>
    /\ IF last.kind = "error"
       THEN Return(Raised(last.err)) /\ UNCHANGED <<tReq, tBody>>
       ELSE IF DOMAIN last.headers = {}
       THEN /\ Return(FailureEnvelope(Message("Cannot find get_headers method", <<>>)))
            /\ UNCHANGED <<tReq, tBody>>
       ELSE SendRequest(last.headers)

\* get_headers at work inside the tool call.
ToolAuthStep ==
    /\ tPc = "await"
    /\ Step(ToolThread)
    /\ UNCHANGED <<normVars, toolVars>>

\* The AuthManager a server builds: with the server's instance URL, or with
\* the constructor's default of None.
ToolConfigs ==
    { [c EXCEPT !.instance_url = u] :
        c \in { k \in Configs :
                  /\ k.api_key.present => k.api_key.header_name = "X-ServiceNow-API-Key"
                  /\ k.oauth.present =>
                       /\ k.oauth.token_url \in {ConfiguredTokenUrl, <<>>}
                       /\ <<k.oauth.username, k.oauth.password>> \in
                            {<<NoneV, NoneV>>, <<"user", "pw">>} },
        u \in {NoneUrl, ServerUrl} }

\* The two objects in both orders, and calls in which one of them has
\* neither capability.
Arrangements ==
    { [auth_manager |-> a, server_config |-> c] :
        a \in CollaboratorKinds, c \in CollaboratorKinds } \
    { [auth_manager |-> k, server_config |-> k] : k \in {"AuthManager", "ServerConfig"} }

\* A mapping from its entries <<key, value>>.
Entries(pairs) == PyDict(PairsToMap(pairs))

\* What a caller passes to each tool.
ToolInputs(tool) ==
    CASE tool = "create_epic" ->
           { Entries(<< <<"short_description", PyStr("x")>> >>),
             Wrap(Entries(<< <<"short_description", PyStr("x")>> >>)),
             Entries(<< <<"short_description", PyStr("x")>>, <<"state", PyStr("2")>>,
                        <<"priority", PyStr("1")>> >>),
             Entries(<< <<"short_description", PyStr("x")>>, <<"description", PyNone>> >>),
             Entries(<< <<"short_description", PyList(<<>>)>> >>),
             Entries(<<>>), PyInt(5) }
      [] tool = "create_scrum_task" ->
           { Entries(<< <<"short_description", PyStr("x")>>, <<"story", PyStr("s1")>>,
                        <<"planned_hours", PyInt(0)>>, <<"hours", PyInt(3)>> >>),
             Entries(<< <<"short_description", PyStr("x")>>, <<"story", PyStr("s1")>>,
                        <<"state", PyStr("2")>> >>),
             Entries(<< <<"short_description", PyStr("x")>> >>) }
      [] tool = "list_epics" ->
           { Entries(<<>>),
             Entries(<< <<"timeframe", PyStr("upcoming")>> >>),
             Entries(<< <<"timeframe", PyStr("completed")>>, <<"query", PyStr("active=true")>> >>),
             Entries(<< <<"priority", PyStr("1")>>, <<"timeframe", PyStr("in-progress")>> >>),
             Entries(<< <<"priority", PyStr("1")>>, <<"assignment_group", PyStr("g")>>,
                        <<"query", PyStr("active=true")>>, <<"limit", PyInt(5)>>,
                        <<"offset", PyInt(2)>> >>),
             Entries(<< <<"timeframe", PyStr("someday")>>, <<"priority", PyNone>> >>),
             Entries(<< <<"priority", PyStr("")>>, <<"query", PyStr("active=true")>> >>),
             Entries(<< <<"limit", PyStr("abc")>> >>) }
      [] tool \in LookupTools ->
           { PyModel([k \in {"incident_number"} |-> PyStr("INC1")]),
             Entries(<<>>) }

ToolInit ==
    /\ config \in ToolConfigs
    /\ AuthFresh
    /\ nCall \in Tools \cup LookupTools
    /\ nRaw \in ToolInputs(nCall)
    /\ nResult = NotComputed
    /\ nPc = "ready"
    /\ tArgs \in Arrangements
    /\ tPc = "start"
    /\ tReq = NoRequest
    /\ tBody = NoBody
    /\ tNow = NoTime
    /\ tResult = NoResult

vars == <<authVars, normVars, toolVars>>

\* The normalizer is not exercised in the resolver's specification.
NormIdle ==
    /\ nRaw = PyNone
    /\ nCall = "none"
    /\ nResult = NotComputed
    /\ nPc = "idle"

Init == AuthInit /\ NormIdle /\ ToolIdle

\* One call at a time (section 5: single-threaded, call-per-invocation).
Next ==
    /\ UNCHANGED <<normVars, toolVars>>
    /\ \E t \in Threads :
           \/ Quiet /\ GetHeaders(t)
           \/ Quiet /\ RefreshToken(t)
           \/ Step(t)

Spec == Init /\ [][Next]_vars

\* The normalizer on its own: it reads and writes no resolver state.
BasicConfig ==
    [type |-> "basic", basic |-> [present |-> TRUE, username |-> "admin", password |-> "pw"],
     oauth |-> NoPayload, api_key |-> NoPayload, instance_url |-> BareUrl]

InitNorm == AuthInit /\ config = BasicConfig /\ NormInit /\ ToolIdle

NextNorm ==
    /\ UNCHANGED <<authVars, toolVars>>
    /\ Normalize

SpecNorm == InitNorm /\ [][NextNorm]_vars

\* Callers on several threads: a call may start while another is inside
\* get_headers or refresh_token, and their steps interleave. Nothing in
\* AuthManager serializes them.
ConcConfigs ==
    { k \in Configs :
        /\ k.type = "oauth"
        /\ k.oauth.present
        /\ k.oauth.token_url = ConfiguredTokenUrl
        /\ <<k.oauth.username, k.oauth.password>> = <<"user", "pw">> }

InitConc == config \in ConcConfigs /\ AuthFresh /\ NormIdle /\ ToolIdle

NextConc ==
    /\ UNCHANGED <<normVars, toolVars>>
    /\ \E t \in Threads :
         \/ (ncalls < MaxRace /\ GetHeaders(t))
         \/ (ncalls < MaxRace /\ RefreshToken(t))
         \/ Step(t)

SpecConc == InitConc /\ [][NextConc]_vars

\* One tool call, from its arguments to what it gives its caller.
NextTool == ToolStart \/ ToolAuthStep \/ ToolFinish

SpecTool == ToolInit /\ [][NextTool]_vars


\* ------------------------------------------------------------------ claims
JsonValue == <<"application/json">>

\* The calls whose history is visible in a state: those in progress and the
\* one that completed most recently.
Calls == {cur[t] : t \in Threads} \cup {last}

AnsweredOK(e) == e.out.status = 200
JsonOK(e) == e.out.status = 200 /\ e.out.json

\* The name of the mode's credential header.
CredentialHeader == IF config.type = "api_key" THEN config.api_key.header_name
                    ELSE "Authorization"

\* C1 (as stated): every header set get_headers returns has Accept and
\* Content-Type equal to application/json plus exactly one more header, which
\* is Authorization in Basic and OAuth mode and the configured header name,
\* carrying the key, in API-key mode.
C1_Original ==
    (last.op = "get_headers" /\ last.kind = "headers") =>
        /\ DOMAIN last.headers = {"Accept", "Content-Type", CredentialHeader}
        /\ Cardinality(DOMAIN last.headers) = 3
        /\ last.headers["Accept"] = JsonValue
        /\ last.headers["Content-Type"] = JsonValue
        /\ config.type = "api_key" => last.headers[CredentialHeader] = <<config.api_key.api_key>>

\* C1 (amended): every header set get_headers returns has exactly the keys
\* Accept, Content-Type and the mode's credential header; the credential header
\* carries the credential (in API-key mode the configured key), and Accept and
\* Content-Type carry application/json unless the configured API-key header
\* name is that very header, in which case the key replaces its value and no
\* additional header is present.
C1_Headers ==
    (last.op = "get_headers" /\ last.kind = "headers") =>
        /\ DOMAIN last.headers = {"Accept", "Content-Type", CredentialHeader}
        /\ \A k \in {"Accept", "Content-Type"} \ {CredentialHeader} :
               last.headers[k] = JsonValue
        /\ Cardinality(DOMAIN last.headers) =
               IF CredentialHeader \in {"Accept", "Content-Type"} THEN 2 ELSE 3
        /\ config.type = "api_key" => last.headers[CredentialHeader] = <<config.api_key.api_key>>
        /\ config.type = "basic" => last.headers["Authorization"][1] = "Basic"
        /\ config.type = "oauth" => Len(last.headers["Authorization"]) = 2

C1_Witness ==
    /\ last.op = "get_headers" /\ last.kind = "headers"
    /\ config.type = "api_key"
    /\ config.api_key.header_name = "X-ServiceNow-API-Key"
    /\ Cardinality(DOMAIN last.headers) = 3

\* C2: in one acquisition, when client_credentials is answered with HTTP 200
\* the acquisition makes exactly that one POST and never the password POST,
\* whatever username and password are configured, and the token and token
\* type of a parsed response are what the resolver holds when the call ends.
C2_OnePostOn200 ==
    /\ \A c \in Calls :
           (c.log # <<>> /\ AnsweredOK(c.log[1])) =>
               /\ Len(c.log) = 1
               /\ c.log[1].grant = "client_credentials"
    /\ \A t \in Threads :
           (cur[t].log # <<>> /\ AnsweredOK(cur[t].log[1])) => pc[t] # "pw_post"
    /\ (Quiet /\ last.log # <<>> /\ JsonOK(last.log[1])) =>
           /\ last.kind # "error"
           /\ token = DictGet(last.log[1].out.access_token, NoneV)
           /\ token_type = DictGet(last.log[1].out.token_type, "Bearer")

C2_Witness ==
    /\ Quiet
    /\ Len(last.log) = 1 /\ JsonOK(last.log[1])
    /\ Truthy(config.oauth.username) /\ Truthy(config.oauth.password)
    /\ token = "t1"

\* C3: client_credentials answered non-200, username and password configured,
\* password grant answered 200 with a token response: afterwards the resolver
\* holds that response's access_token, with its token_type or Bearer, and a
\* get_headers call returns Authorization built from exactly these.
C3_PasswordToken ==
    (Quiet /\ Len(last.log) = 2 /\ JsonOK(last.log[2])) =>
        /\ ~AnsweredOK(last.log[1])
        /\ token = DictGet(last.log[2].out.access_token, NoneV)
        /\ token_type = DictGet(last.log[2].out.token_type, "Bearer")
        /\ last.op = "get_headers" =>
               /\ last.kind = "headers"
               /\ last.headers["Authorization"] =
                      <<Str(DictGet(last.log[2].out.token_type, "Bearer")),
                        Str(DictGet(last.log[2].out.access_token, NoneV))>>

C3_Witness ==
    /\ Quiet
    /\ last.op = "get_headers" /\ last.kind = "headers"
    /\ Len(last.log) = 2
    /\ last.log[1].out.status = 401
    /\ last.log[2].out.access_token = "t2"
    /\ token = "t2" /\ token_type = "mac"

C5_GrantOrder ==
    /\ \A c \in Calls :
           /\ Len(c.log) <= 2
           /\ c.acq <= 1
           /\ c.log # <<>> => c.log[1].grant = "client_credentials"
           /\ Len(c.log) = 2 =>
                  /\ c.log[2].grant = "password"
                  /\ Truthy(config.oauth.username) /\ Truthy(config.oauth.password)
                  /\ ~AnsweredOK(c.log[1])
    /\ \A t \in Threads :
           pc[t] = "pw_post" =>
               /\ Len(cur[t].log) = 1
               /\ Truthy(config.oauth.username) /\ Truthy(config.oauth.password)
               /\ ~AnsweredOK(cur[t].log[1])

C5_Witness ==
    /\ Len(last.log) = 2
    /\ last.log[2].grant = "password"
    /\ last.log[1].out.status = 500

\* C6 (as stated): in OAuth mode, once a get_headers call has returned a header
\* set, a later get_headers call with no refresh_token in between makes no
\* request to the token endpoint and returns the same Authorization value.
C6_Original ==
    (last.op = "get_headers" /\ config.type = "oauth" /\ last.prior # <<>>) =>
        /\ last.log = <<>>
        /\ last.acq = 0
        /\ last.kind = "headers"
        /\ last.headers["Authorization"] = last.prior

\* C7: refresh_token in OAuth mode always runs the acquisition, also with a
\* token cached; the get_headers call that follows a refresh that returned
\* normally builds Authorization from the token and token_type stored by the
\* latest acquisition (the refresh's own, without any request, when the
\* refresh obtained a token), never from values older than the refresh.
C7_Refresh ==
    /\ (last.op = "refresh_token" /\ config.type = "oauth") => last.acq = 1
    /\ \A t \in Threads :
           (cur[t].op = "refresh_token" /\ config.type = "oauth") => pc[t] # "idle"
    /\ (last.op = "get_headers" /\ last.after = "refresh_ok") =>
           /\ Truthy(DictGet(last.prevOut.access_token, NoneV)) =>
                  /\ last.log = <<>>
                  /\ last.kind = "headers"
           /\ last.kind = "headers" =>
                  LET src == IF last.log = <<>> THEN last.prevOut
                             ELSE last.log[Len(last.log)].out
                  IN  last.headers["Authorization"] =
                          <<Str(DictGet(src.token_type, "Bearer")),
                            Str(DictGet(src.access_token, NoneV))>>

C7_Witness ==
    /\ last.op = "get_headers" /\ last.after = "refresh_ok"
    /\ last.kind = "headers" /\ last.log = <<>>
    /\ last.prevOut.access_token = "t2"
    /\ last.headers["Authorization"] = <<"mac", "t2">>
    /\ ncalls = 3

\* C8: token and token_type change only in an acquisition whose latest grant
\* was answered HTTP 200, and a call that ends with an error leaves both as
\* they were when it started.
C8_Step ==
    /\ (token' # token \/ token_type' # token_type) =>
           \E t \in Threads :
               /\ pc[t] \in {"store_token", "store_type"}
               /\ cur[t].acq = 1
               /\ AnsweredOK(cur[t].log[Len(cur[t].log)])
    /\ (last' # last /\ last'.kind = "error") =>
           /\ token' = last'.tok0
           /\ token_type' = last'.typ0

C8_TokenOnlyOnSuccess == [][C8_Step]_vars

C8_Witness ==
    /\ Quiet
    /\ last.op = "refresh_token" /\ last.kind = "error" /\ last.err = "auth"
    /\ Len(last.log) = 2
    /\ token = "t1" /\ token_type = "Bearer"

\* C9 (as stated): for every mapping m, schema and required-field list,
\* normalizing {"params": m} gives the same outcome as normalizing m.
C9_Original ==
    (nPc = "done" /\ nRaw.t = "dict") =>
        UnwrapAndValidate(Wrap(nRaw), SchemaOf(nCall), RequiredOf(nCall)) = nResult

\* C9 (amended): for every mapping m that is not itself a one-entry mapping
\* {"params": <mapping>}, and every schema and required-field list,
\* normalizing {"params": m} gives the same outcome as normalizing m.
C9_WrapEquivalence ==
    (nPc = "done" /\ nRaw.t = "dict" /\ ~IsWrapped(nRaw)) =>
        UnwrapAndValidate(Wrap(nRaw), SchemaOf(nCall), RequiredOf(nCall)) = nResult

C9_Witness ==
    /\ nPc = "done"
    /\ nCall = "create_epic"
    /\ nRaw = PyDict([k \in {"short_description"} |-> PyStr("x")])
    /\ nResult.success
    /\ nResult.params["short_description"] = PyStr("x")
    /\ UnwrapAndValidate(Wrap(nRaw), SchemaOf(nCall), RequiredOf(nCall)) = nResult

\* The mapping the required-field check looks at: the input, unwrapped and
\* coerced, when there is one.
Examined(raw) ==
    LET p == IF IsWrapped(raw) THEN raw.m["params"] ELSE raw
    IN  IF p.t = "dict" THEN [ok |-> TRUE, d |-> p.m] ELSE Coerce(p)

Absentees(required, d) == {i \in 1..Len(required) : required[i] \notin DOMAIN d}

\* C10: when a name of required_fields is absent from the (possibly
\* unwrapped) mapping, the call fails with the missing-field message naming
\* the first absent name in required_fields order and nothing else, also when
\* present fields would fail schema validation.
C10_MissingField ==
    (/\ nPc = "done"
     /\ Examined(nRaw).ok
     /\ Absentees(RequiredOf(nCall), Examined(nRaw).d) # {}) =>
        LET absent == Absentees(RequiredOf(nCall), Examined(nRaw).d)
            first == CHOOSE i \in absent : \A j \in absent : i <= j
        IN  /\ ~nResult.success
            /\ nResult.message = Message("Missing required parameter",
                                         <<RequiredOf(nCall)[first]>>)

C10_Witness ==
    /\ nPc = "done"
    /\ nCall = "create_scrum_task"
    /\ nRaw = Wrap(PyDict([k \in {"planned_hours"} |-> PyStr("abc")]))
    /\ nResult = Failure("Missing required parameter", <<"short_description">>)

\* C11: an input that is no mapping and cannot be coerced into one yields the
\* input-shape failure whose message carries the type name of the value the
\* caller passed, and neither the required-field check nor validation runs
\* (the result is this failure, whatever the schema requires).
C11_ShapeFailure ==
    (/\ nPc = "done"
     /\ nRaw.t # "dict"
     /\ nRaw.t \notin {"BaseModel", "list"}
     /\ ~(nRaw.t = "str" /\ nRaw.s = "")) =>
        nResult = Failure("Invalid parameters format. Expected a dictionary, got",
                          <<nRaw.t>>)

C11_Witness ==
    /\ nPc = "done"
    /\ nCall = "create_scrum_task"
    /\ nRaw = PyStr("ab")
    /\ nResult = Failure("Invalid parameters format. Expected a dictionary, got", <<"str">>)

BothCredentials == Truthy(config.oauth.username) /\ Truthy(config.oauth.password)

\* The client_credentials attempt yielded no token: a failed request, a
\* non-200 status, or a 200 response from which no token can be read.
NoTokenFrom(o) == o.status # 200 \/ ~o.json \/ o.access_token = Absent

Count(log, grant) == Cardinality({i \in 1..Len(log) : log[i].grant = grant})

\* C17: no token request is retried: one acquisition makes at most one
\* client_credentials POST and at most one password POST, and one
\* get_headers or refresh_token call runs at most one acquisition.
C17_NoRetry ==
    \A c \in Calls :
        /\ c.acq <= 1
        /\ c.acq = 0 => c.log = <<>>
        /\ Count(c.log, "client_credentials") <= 1
        /\ Count(c.log, "password") <= 1
        /\ Len(c.log) = Count(c.log, "client_credentials") + Count(c.log, "password")

C17_Witness ==
    /\ last.op = "refresh_token" /\ last.kind = "error"
    /\ last.acq = 1
    /\ Len(last.log) = 2
    /\ last.log[1].out.status = 500 /\ last.log[2].out.status = 500

Least(S) == CHOOSE i \in S : \A j \in S : i <= j

\* The part of url before its first "." ...
BeforeFirstDot(url) ==
    LET dots == {i \in 1..Len(url) : url[i] = "."}
    IN  IF dots = {} THEN url ELSE SubSeq(url, 1, Least(dots) - 1)

\* ... without its protocol prefix ("scheme://").
StripProtocol(s) ==
    LET at == {i \in 1..(Len(s) - 2) : SubSeq(s, i, i + 2) = <<":", "/", "/">>}
    IN  IF at = {} THEN s ELSE SubSeq(s, Least(at) + 3, Len(s))

ExpectedEndpoint ==
    IF TruthyUrl(config.oauth.token_url) THEN config.oauth.token_url
    ELSE <<"https://">> \o StripProtocol(BeforeFirstDot(config.instance_url))
                        \o <<".service-now.com/oauth_token.do">>

\* C18: every request of an acquisition goes to one endpoint: the configured
\* token URL when there is one (whatever the instance URL is), otherwise
\* https://<subdomain>.service-now.com/oauth_token.do, <subdomain> being the
\* part of the instance URL before its first "." without protocol prefix.
C18_Endpoint ==
    \A c \in Calls :
        /\ \A i \in 1..Len(c.log) : c.log[i].url = ExpectedEndpoint
        /\ c.url # <<>> => c.url = ExpectedEndpoint

C18_Witness ==
    /\ config.oauth.present
    /\ config.oauth.token_url = <<>>
    /\ config.instance_url = FullUrl
    /\ Len(last.log) = 2
    /\ last.log[1].url = <<"https://", "d", ".service-now.com/oauth_token.do">>
    /\ last.log[2].url = last.log[1].url

\* No endpoint can be determined from the configuration.
NoEndpoint ==
    IF ~config.oauth.present THEN TRUE
    ELSE /\ ~TruthyUrl(config.oauth.token_url)
         /\ \/ ~TruthyUrl(config.instance_url)
            \/ \A i \in 1..Len(config.instance_url) : config.instance_url[i] # "."

\* C19: with the OAuth payload absent, or with no token URL configured and an
\* instance URL that is absent or has fewer than two dot-separated segments,
\* an acquisition fails with a configuration error and makes no request.
C19_ConfigError ==
    (config.type = "oauth" /\ NoEndpoint) =>
        /\ \A c \in Calls : c.log = <<>>
        /\ \A t \in Threads : pc[t] \in {"idle", "acquire"}
        /\ last.acq = 1 => (last.kind = "error" /\ last.err = "config")
        /\ token = NoneV

C19_Witness ==
    /\ config.type = "oauth"
    /\ config.oauth.present
    /\ config.instance_url = DotlessUrl
    /\ last.op = "refresh_token"
    /\ last.acq = 1 /\ last.kind = "error" /\ last.err = "config"
    /\ last.log = <<>>

\* C20: in Basic mode without a basic payload and in API-key mode without an
\* api-key payload, every get_headers call raises a configuration error and
\* returns no header set.
C20_MissingPayload ==
    (\/ config.type = "basic" /\ ~config.basic.present
     \/ config.type = "api_key" /\ ~config.api_key.present) =>
        /\ last.op = "get_headers" =>
               /\ last.kind = "error"
               /\ last.err = "config"
               /\ last.headers = NoHeaders
        /\ stableAuth = <<>>

C20_Witness ==
    /\ config.type = "api_key" /\ ~config.api_key.present
    /\ last.op = "get_headers" /\ last.kind = "error" /\ last.err = "config"
    /\ ncalls = MaxCalls

\* ---------------------------------------------------------------- tools
\* The tool call has returned or raised.
ToolDone == tPc = "done"

NormalizationFailed == nPc = "done" /\ ~nResult.success

HeaderConfigError == tPc = "done" /\ last.kind = "error" /\ last.err = "config"

IsFailureEnvelope(r) == ~r.raised /\ ~r.success /\ "message" \in r.keys /\ r.message # NoMessage

\* C12 (as stated): a configuration, input-shape, missing-field or validation
\* error during a tool call, configuration errors of get_headers included,
\* reaches the caller as a failure envelope and never as a raised exception.
C12_Original ==
    (ToolDone /\ (NormalizationFailed \/ HeaderConfigError)) => IsFailureEnvelope(tResult)

\* C13: a returned envelope with success false has a message and no entity
\* key or entities; a list's envelope with success true has count = total =
\* the number of entities returned.
C13_Envelope ==
    (ToolDone /\ ~tResult.raised) =>
        /\ ~tResult.success =>
              /\ "message" \in tResult.keys
              /\ tResult.message # NoMessage
              /\ tResult.keys \cap EntityKeys = {}
              /\ tResult.entities = <<>>
        /\ (IsList(nCall) /\ tResult.success) =>
              /\ {"count", "total"} \subseteq tResult.keys
              /\ tResult.count = tResult.total
              /\ tResult.total = Len(tResult.entities)

C13_Witness ==
    /\ ToolDone
    /\ IsList(nCall)
    /\ tResult.success
    /\ Len(tResult.entities) = 2

\* One of the two objects carries an instance URL and one exposes get_headers.
Carries(kind) == HasInstanceUrl(kind) /\ TruthyUrl(InstanceUrlOf(kind, config))

Capable ==
    /\ \E k \in {tArgs.auth_manager, tArgs.server_config} : Carries(k)
    /\ \E k \in {tArgs.auth_manager, tArgs.server_config} : HasGetHeaders(k)

\* C14 (as stated): with one object carrying the instance URL and one exposing
\* get_headers, the tool resolves the same URL and the same source of headers
\* as it would with the two objects in the other order.
C14_Original ==
    (ToolDone /\ ~NormalizationFailed /\ Capable) =>
        /\ ResolveInstanceUrl(tArgs.auth_manager, tArgs.server_config, config)
             = ResolveInstanceUrl(tArgs.server_config, tArgs.auth_manager, config)
        /\ HeaderSource(tArgs.auth_manager, tArgs.server_config)
             = HeaderSource(tArgs.server_config, tArgs.auth_manager)
        /\ tResult.message # Message("Cannot find instance_url", <<>>)

\* The identifier the lookup was asked for.
AskedFor == nResult.params["incident_number"].s

LookupAnswered ==
    /\ ToolDone
    /\ nCall \in LookupTools
    /\ tReq.sent
    /\ tBody.ok
    /\ tBody.has_result

\* C15: a lookup answered with an empty result list returns success false and
\* a "not found" message with the identifier; answered with a non-empty list
\* it returns success true, one record of the list under the entity key, and a
\* message with the identifier.
C15_Lookup ==
    LookupAnswered =>
        IF tBody.entities = <<>>
        THEN /\ IsFailureEnvelope(tResult)
             /\ tResult.message = Message("not found:", <<AskedFor>>)
        ELSE /\ ~tResult.raised
             /\ tResult.success
             /\ EntityKeyOf(nCall) \in tResult.keys
             /\ tResult.entities = <<tBody.entities[1]>>
             /\ "message" \in tResult.keys
             /\ tResult.message.args = <<AskedFor>>

C15_Witness == LookupAnswered /\ tBody.entities = <<>> /\ ~tResult.success

\* A mapping with the one entry "params" whose value is a mapping.
SoleWrapper(p) == p.t = "dict" /\ DOMAIN p.m = {"params"} /\ p.m["params"].t = "dict"

C22_NormalizeFirst ==
    /\ (tPc # "idle" /\ (ncalls > 0 \/ tReq.sent \/ tNow # NoTime \/ tPc = "await")) =>
           (nPc = "done" /\ nResult.success)
    /\ (ToolDone /\ NormalizationFailed) =>
           /\ tResult = FailureEnvelope(nResult.message)
           /\ ncalls = 0
           /\ last = NoCall
           /\ \A t \in Threads : cur[t] = NoCall /\ pc[t] = "idle"
           /\ ~tReq.sent
           /\ token = NoneV
           /\ token_type = NoneV

C22_Witness ==
    /\ ToolDone
    /\ NormalizationFailed
    /\ config.type = "oauth"
    /\ config.oauth.present
    /\ tArgs = [auth_manager |-> "AuthManager", server_config |-> "ServerConfig"]
    /\ nRaw = PyInt(5)
    /\ ~tResult.success

\* A header set with Accept, Content-Type and the mode's credential header.
CompleteHeaders(h) == {"Accept", "Content-Type", CredentialHeader} \subseteq DOMAIN h

\* C23: a tool call whose header production failed sends no table request; a
\* table request is sent only after get_headers returned a complete header
\* set, and carries that set.
C23_HeadersBeforeRequest ==
    /\ (ToolDone /\ last.kind = "error") => ~tReq.sent
    /\ tReq.sent =>
           /\ last.op = "get_headers"
           /\ last.kind = "headers"
           /\ CompleteHeaders(last.headers)
           /\ \A h \in DOMAIN last.headers :
                  /\ h \in DOMAIN tReq.headers
                  /\ h # "Content-Type" => tReq.headers[h] = last.headers[h]

C23_Witness ==
    /\ ToolDone
    /\ last.kind = "error"
    /\ last.err = "auth"
    /\ Len(last.log) = 2
    /\ tResult.raised
    /\ ~tReq.sent

NoUrlCapability == ~HasInstanceUrl(tArgs.auth_manager) /\ ~HasInstanceUrl(tArgs.server_config)
NoHeadersCapability == ~HasGetHeaders(tArgs.auth_manager) /\ ~HasGetHeaders(tArgs.server_config)

\* C24: when neither object has an instance URL the call returns a failure
\* envelope naming instance_url; when neither has get_headers (and a URL was
\* found) it returns one naming get_headers; in both cases nothing is sent.
C24_MissingCapability ==
    (ToolDone /\ ~NormalizationFailed) =>
        /\ NoUrlCapability =>
              /\ tResult = FailureEnvelope(Message("Cannot find instance_url", <<>>))
              /\ ~tReq.sent
        /\ NoHeadersCapability =>
              /\ IsFailureEnvelope(tResult)
              /\ ~tReq.sent
              /\ ncalls = 0
              /\ ~NoUrlCapability =>
                    tResult = FailureEnvelope(Message("Cannot find get_headers method", <<>>))

C24_Witness ==
    /\ ToolDone
    /\ ~NormalizationFailed
    /\ tArgs = [auth_manager |-> "Other", server_config |-> "ServerConfig"]
    /\ tResult = FailureEnvelope(Message("Cannot find get_headers method", <<>>))

\* The caller's mapping, and the filters it gives a value other than null
\* and the empty string.
Given == Examined(nRaw).d
Supplied(f) == f \in DOMAIN Given /\ Given[f] # PyNone /\ Given[f] # PyStr("")

ListSent == ToolDone /\ tReq.sent /\ IsList(nCall)

\* The fragment the claim gives for a timeframe at timestamp T.
TimeFragment(tf, T) ==
    CASE tf = "upcoming" -> <<"start_date", ">", T>>
      [] tf = "in-progress" -> <<"start_date", "<", T, "^", "end_date", ">", T>>
      [] tf = "completed" -> <<"end_date", "<", T>>
      [] OTHER -> <<>>

Contains(seq, frag) ==
    \E i \in 0..(Len(seq) - Len(frag)) : SubSeq(seq, i + 1, i + Len(frag)) = frag

\* C25: a list request with timeframe upcoming, in-progress or completed has
\* in its query start_date>T, start_date<T^end_date>T or end_date<T, where T
\* is the one timestamp the call read from the clock; no other timestamp
\* occurs in the query.
C25_Timeframe ==
    (ListSent /\ Supplied("timeframe")
       /\ Given["timeframe"].s \in {"upcoming", "in-progress", "completed"}) =>
        /\ tNow \in Clock
        /\ Contains(tReq.query, TimeFragment(Given["timeframe"].s, tNow))
        /\ \A i \in 1..Len(tReq.query) : tReq.query[i] \in Clock => tReq.query[i] = tNow

C25_Witness ==
    /\ ListSent
    /\ tNow = "T2"
    /\ tReq.query = <<"priority", "=", "1", "^",
                      "start_date", "<", "T2", "^", "end_date", ">", "T2">>

\* The fragments the claim expects, in its order: entity filters, timeframe,
\* the caller's own query.
ExpectedParts ==
    LET eq(f) == IF Supplied(f) THEN << <<f, "=", Given[f].s>> >> ELSE <<>>
        frame == IF Supplied("timeframe") /\ TimeFragment(Given["timeframe"].s, tNow) # <<>>
                 THEN << TimeFragment(Given["timeframe"].s, tNow) >> ELSE <<>>
        free == IF Supplied("query") THEN << <<Given["query"].s>> >> ELSE <<>>
    IN  eq("priority") \o eq("assignment_group") \o frame \o free

\* C26: the query of a list request is the fragments of the supplied filters
\* joined with ^ in the order entity filters, timeframe, free query (empty
\* when there is none); the request carries the validated limit and offset
\* (10 and 0 when the caller gives none) and display_value true.
C26_ListRequest ==
    ListSent =>
        /\ tReq.query = Join(ExpectedParts)
        /\ tReq.limit = nResult.params["limit"]
        /\ tReq.offset = nResult.params["offset"]
        /\ "limit" \notin DOMAIN Given => tReq.limit = PyInt(10)
        /\ "offset" \notin DOMAIN Given => tReq.offset = PyInt(0)
        /\ tReq.display_value = "true"

C26_Witness ==
    /\ ListSent
    /\ tReq.query = <<"priority", "=", "1", "^", "assignment_group", "=", "g", "^", "active=true">>
    /\ tReq.limit = PyInt(5)
    /\ tReq.offset = PyInt(2)

CreateSent == ToolDone /\ tReq.sent /\ nCall \in {"create_epic", "create_scrum_task"}

\* C30 (as stated): a create request's body has every schema field the caller
\* gave a non-null value, with that value, and no field the caller did not
\* give and that has no default.
C30_Original ==
    CreateSent =>
        \A f \in DOMAIN SchemaOf(nCall).fields :
            IF f \in DOMAIN Given /\ Given[f] # PyNone
            THEN f \in DOMAIN tReq.data /\ tReq.data[f] = Given[f]
            ELSE SchemaOf(nCall).fields[f].default = PyNone => f \notin DOMAIN tReq.data

\* ------------------------------------------------------------ concurrency
\* The latest token request of a call, with its response.
Latest(c) == c.log[Len(c.log)]

\* Both callers are inside get_headers, each found the token empty and each
\* has had its own token request answered.
DuplicateAcquisition ==
    \A t \in Threads :
        /\ cur[t].op = "get_headers"
        /\ cur[t].tok0 = NoneV
        /\ cur[t].log # <<>>

C27_Step ==
    /\ \A t \in Threads :
          (/\ cur[t].op = "get_headers"
           /\ pc[t] # "idle"
           /\ pc'[t] = "idle"
           /\ \E i \in 1..Len(last'.log) : JsonOK(last'.log[i])) =>
              /\ last'.kind = "headers"
              /\ CompleteHeaders(last'.headers)
    /\ token' # token =>
          \E t \in Threads :
              /\ cur[t].log # <<>>
              /\ JsonOK(Latest(cur[t]))
              /\ token' = DictGet(Latest(cur[t]).out.access_token, NoneV)

\* C27: get_headers calls on one OAuth resolver may overlap and each run its
\* own acquisition. However they interleave, a call that had a token request
\* answered 200 with a token response returns a header set, and the token the
\* resolver holds only ever becomes the token of a response one of the
\* acquisitions in progress received.
C27_Duplicate == [][C27_Step]_vars

C27_Witness ==
    /\ DuplicateAcquisition
    /\ \A t \in Threads : JsonOK(Latest(cur[t])) /\ pc[t] = "store_type"
    /\ Latest(cur["caller1"]).out.access_token = "t1"
    /\ Latest(cur["caller2"]).out.access_token = "t2"
    /\ token \in {"t1", "t2"}

\* The (token_type, token) pairs that one acquisition can store.
AcquisitionPairs ==
    { <<Str(ResponseTokenType(o)), Str(ResponseToken(o))>> :
        o \in {x \in Outcomes : x.status = 200 /\ x.json} }

\* C28 (as stated): in OAuth mode, however get_headers and refresh_token calls
\* interleave, the Authorization of a returned header set is the token and
\* the token_type that one acquisition stored: never a token with no
\* token_type, never the token of one acquisition with the type of another.
C28_Original ==
    (last.op = "get_headers" /\ last.kind = "headers" /\ config.type = "oauth") =>
        /\ last.headers["Authorization"] \in AcquisitionPairs
        /\ ~(/\ last.headers["Authorization"][1] = "None"
             /\ last.headers["Authorization"][2] # "None")

\* C29 (as stated): in OAuth mode a returned header set has an Authorization
\* built from a present, non-empty token and a present token_type, and a 200
\* response without access_token leads neither to a returned header set nor
\* to a token held as cached.
C29_Original ==
    /\ (last.op = "get_headers" /\ last.kind = "headers" /\ config.type = "oauth") =>
          /\ last.headers["Authorization"][1] # "None"
          /\ last.headers["Authorization"][2] \notin {"None", ""}
    /\ (last.log # <<>> /\ JsonOK(Latest(last)) /\ Latest(last).out.access_token = Absent) =>
          last.kind # "headers"

====
